---- MODULE Spec2Model ----
(***************************************************************************)
(* Interaction-state model of the 2D line editor in src/src/App.js.        *)
(*                                                                         *)
(* The React component keeps its state in useState cells; every event      *)
(* handler runs to completion on the state of the latest render, so each   *)
(* handler is one atomic action here.  Pointer positions are pixel         *)
(* coordinates.  In the interaction specifications the view (zoom, offset) *)
(* is the one the component starts with, under which canvas coordinates    *)
(* are integers, and the fine-grid checkbox stays as it starts; the view   *)
(* specification changes both.  Distances are                              *)
(* compared through their squares, point-to-segment distances through      *)
(* exact fractions, so that every comparison of the code is decided        *)
(* exactly.  The store index selectedLine is 1-based here (0 = null).      *)
(***************************************************************************)
EXTENDS Integers, Sequences, FiniteSets, TLC

(* ------------------------------ constants ------------------------------ *)

GRID_SIZE == 20

MM_PER_GRID == 10

\* Default threshold of findNearbyPoint / findLineAtPoint and the literal 10
\* of handleMouseDown, handleClick and handlePointSelect.
THRESHOLD == 10

\* Fine grid spacing, GRID_SIZE / 10.
FINE_GRID_SIZE == GRID_SIZE \div 10

\* Zoom is counted in tenths: MIN_ZOOM = 0.1, MAX_ZOOM = 5, ZOOM_STEP = 0.1.
MIN_ZOOM == 1

MAX_ZOOM == 50

ZOOM_STEP == 1

\* JavaScript null.
null == [none |-> TRUE]

\* A localStorage item or a download that is not there.
noItem == [present |-> FALSE, text |-> << >>]

(* -------------------------------- bounds ------------------------------- *)

\* Most lines the store holds in the model.
MaxLines == 2

\* Last clock reading (Date.now(), counted in completions) at which a line may
\* be completed.
MaxClock == 2

\* Whole-line drags are followed while both endpoints stay in 0..MaxCoord.
MaxCoord == 40

\* Pointer positions (clientX - rect.left, clientY - rect.top) the events carry.
Pixels ==
    { [x |-> 0,  y |-> 0],
      [x |-> 10, y |-> 4] }

(* -------------------------------- state -------------------------------- *)

VARIABLES
    lines,          \* the line-set store: sequence of [id, start, end]
    currentPoint,   \* pending first endpoint of a line under construction, or null
    hoverPoint,     \* preview endpoint, or null
    selectedPoint,  \* [lineId, pointKey] of the endpoint being edited, or null
    snapPoint,      \* last snap target, or null
    isUpdateMode,
    selectedLine,   \* index into lines (1-based), 0 for null
    isDragging,
    dragStart,      \* drag anchor, or null
    useFineGrid,
    mounted,        \* FALSE once a render has thrown and React has unmounted the tree
    clock,          \* Date.now() of the latest line completion
    pointer,        \* input surface: pixel the pointer is at, null before it enters the canvas
    ctrlHeld,       \* input surface: the Control key is physically down
    pressed,        \* input surface: mouse button held down on the canvas
    due,            \* input surface: event that follows at once the one just delivered
    lastEvent,      \* history: the event delivered last and the branch its handler took
    picked,         \* history: endpoint armed by the latest secondary action
    sessionDid,     \* history: kinds of store mutation by pointer-moves since the last pointer-down
    zoom,           \* view: zoom factor, in tenths
    offset,         \* view: pan offset; each coordinate an exact fraction <<num, den>>
    started,        \* persistence: the effects of the first commit have run
    storage,        \* persistence: text under STORAGE_KEY in localStorage, or null
    timers,         \* persistence: pending save timeouts [lines, elapsed, latest]
    download,       \* files: text of the latest exported project.txt, or null
    uncaughtError,  \* an exception has left a callback uncaught
    exportedLines,  \* history: the store the latest export was taken from
    answer          \* query: latest result of a spatial query asked on its own

appVars == <<lines, currentPoint, hoverPoint, selectedPoint, snapPoint,
             isUpdateMode, selectedLine, isDragging, dragStart, useFineGrid,
             mounted, clock>>

inputVars == <<pointer, ctrlHeld, pressed, due>>

historyVars == <<lastEvent, picked, sessionDid>>

viewVars == <<zoom, offset>>

persistVars == <<started, storage, timers, download, uncaughtError, exportedLines>>

queryVars == <<answer>>

vars == <<appVars, inputVars, historyVars, viewVars, persistVars, queryVars>>

(* ------------------------- geometry utilities -------------------------- *)

\* Math.round(a / b) for integers a and b > 0: floor(a/b + 1/2).
MathRoundDiv(a, b) == (2 * a + b) \div (2 * b)

\* distance(p1, p2) squared; distance(p1, p2) < t  <=>  distanceSq(p1, p2) < t*t.
distanceSq(p1, p2) ==
    (p1.x - p2.x) * (p1.x - p2.x) + (p1.y - p2.y) * (p1.y - p2.y)

\* Largest n >= from with n = from or (2n-1) * GRID_SIZE <= 2 * MM_PER_GRID * sqrt(d2):
\* Math.round(sqrt(d2) / GRID_SIZE * MM_PER_GRID), rounding halves up.
RECURSIVE RoundedLength(_, _)
RoundedLength(d2, from) ==
    IF (2 * from + 1) * (2 * from + 1) * GRID_SIZE * GRID_SIZE
           <= 4 * MM_PER_GRID * MM_PER_GRID * d2
    THEN RoundedLength(d2, from + 1)
    ELSE from

\* Mutation of calculateLength: the length in grid units, not millimetres.
calculateLength_gridUnits(p1, p2) ==
    IF p1 = null \/ p2 = null
    THEN 0
    ELSE RoundedLength(distanceSq(p1, p2), 0) \div MM_PER_GRID

calculateLength(p1, p2) ==
    IF p1 = null \/ p2 = null
    THEN 0
    ELSE RoundedLength(distanceSq(p1, p2), 0)

\* (v - o) / zoom for a pixel coordinate v and an offset coordinate o = <<num, den>>;
\* the division is exact in the view the component starts with.
canvasCoord(v, o) == ((v * o[2] - o[1]) * 10) \div (zoom * o[2])

\* Canvas (world) coordinates of a pixel position.
canvasPointOf(point) ==
    [x |-> canvasCoord(point.x, offset.x), y |-> canvasCoord(point.y, offset.y)]

\* Math.round(((v - o) / zoom) / gridSize) * gridSize, one exact rounding.
snapCoord(v, o, gridSize) ==
    MathRoundDiv((v * o[2] - o[1]) * 10, zoom * o[2] * gridSize) * gridSize

snapToGrid(point, fine) ==
    LET gridSize == IF fine THEN FINE_GRID_SIZE ELSE GRID_SIZE
    IN  [x |-> snapCoord(point.x, offset.x, gridSize),
         y |-> snapCoord(point.y, offset.y, gridSize)]

\* a/b < c/d and a/b = c/d for a, c >= 0 and b, d > 0, without large products.
FracLess(a, b, c, d) ==
    IF a \div b # c \div d
    THEN a \div b < c \div d
    ELSE (a % b) * d < (c % d) * b

FracEq(a, b, c, d) ==
    a \div b = c \div d /\ (a % b) * d = (c % d) * b

\* distanceToLineSegment squared, as the fraction <<num, den>>.
distanceToLineSegmentSq(point, lineStart, lineEnd) ==
    LET A == point.x - lineStart.x
        B == point.y - lineStart.y
        C == lineEnd.x - lineStart.x
        D == lineEnd.y - lineStart.y
        dot == A * C + B * D
        lenSq == C * C + D * D
    IN  IF lenSq = 0 \/ dot < 0
        THEN <<distanceSq(point, lineStart), 1>>        \* param < 0 (or param = -1)
        ELSE IF dot > lenSq
        THEN <<distanceSq(point, lineEnd), 1>>          \* param > 1
        ELSE <<(A * D - B * C) * (A * D - B * C), lenSq>> \* foot of the perpendicular

(* ------------------------ spatial query engine ------------------------- *)

\* Mutation of scanEndpoints: end checked before start.
RECURSIVE scanEndpoints_endFirst(_, _, _)
scanEndpoints_endFirst(L, canvasPoint, i) ==
    IF i > Len(L)
    THEN null
    ELSE IF distanceSq(L[i].end, canvasPoint) < THRESHOLD * THRESHOLD
    THEN [index |-> i, lineId |-> L[i].id, pointKey |-> "end", point |-> L[i].end]
    ELSE IF distanceSq(L[i].start, canvasPoint) < THRESHOLD * THRESHOLD
    THEN [index |-> i, lineId |-> L[i].id, pointKey |-> "start", point |-> L[i].start]
    ELSE scanEndpoints_endFirst(L, canvasPoint, i + 1)

\* The endpoint scan shared by findNearbyPoint, handleMouseDown and
\* handlePointSelect: first line, from index i on, with an endpoint within
\* threshold of canvasPoint, start checked before end; null when there is none.
RECURSIVE scanEndpoints(_, _, _)
scanEndpoints(L, canvasPoint, i) ==
    IF i > Len(L)
    THEN null
    ELSE IF distanceSq(L[i].start, canvasPoint) < THRESHOLD * THRESHOLD
    THEN [index |-> i, lineId |-> L[i].id, pointKey |-> "start", point |-> L[i].start]
    ELSE IF distanceSq(L[i].end, canvasPoint) < THRESHOLD * THRESHOLD
    THEN [index |-> i, lineId |-> L[i].id, pointKey |-> "end", point |-> L[i].end]
    ELSE scanEndpoints(L, canvasPoint, i + 1)

\* Mutation of findNearbyPoint: the pending start point is looked at first.
findNearbyPoint_pendingFirst(point, L, cp) ==
    LET canvasPoint == canvasPointOf(point)
        hit == scanEndpoints(L, canvasPoint, 1)
    IN  IF cp # null /\ distanceSq(cp, canvasPoint) < THRESHOLD * THRESHOLD
        THEN cp
        ELSE IF hit # null
        THEN hit.point
        ELSE null

findNearbyPoint(point, L, cp) ==
    LET canvasPoint == canvasPointOf(point)
        hit == scanEndpoints(L, canvasPoint, 1)
    IN  IF hit # null
        THEN hit.point
        ELSE IF cp # null /\ distanceSq(cp, canvasPoint) < THRESHOLD * THRESHOLD
        THEN cp
        ELSE null

\* Mutation of findLineLoop: without the equally-close-but-shorter test.
RECURSIVE findLineLoop_closerOnly(_, _, _, _)
findLineLoop_closerOnly(L, point, i, acc) ==
    IF i > Len(L)
    THEN acc
    ELSE
        LET d == distanceToLineSegmentSq(point, L[i].start, L[i].end)
        IN  IF FracLess(d[1], d[2], acc.num, acc.den)
            THEN findLineLoop_closerOnly(L, point, i + 1,
                    [index |-> i, num |-> d[1], den |-> d[2],
                     inf |-> FALSE, shortestSq |-> distanceSq(L[i].start, L[i].end)])
            ELSE findLineLoop_closerOnly(L, point, i + 1, acc)

\* The loop of findLineAtPoint from index i on; acc carries closestIndex
\* (0 = none), closestDistance squared as a fraction and shortestLength squared
\* (inf = TRUE while it is Infinity).
RECURSIVE findLineLoop(_, _, _, _)
findLineLoop(L, point, i, acc) ==
    IF i > Len(L)
    THEN acc
    ELSE
        LET d == distanceToLineSegmentSq(point, L[i].start, L[i].end)
            lineLengthSq == distanceSq(L[i].start, L[i].end)
            closer == FracLess(d[1], d[2], acc.num, acc.den)
            tie == /\ FracEq(d[1], d[2], acc.num, acc.den)
                   /\ (acc.inf \/ lineLengthSq < acc.shortestSq)
        IN  IF closer \/ tie
            THEN findLineLoop(L, point, i + 1,
                    [index |-> i, num |-> d[1], den |-> d[2],
                     inf |-> FALSE, shortestSq |-> lineLengthSq])
            ELSE findLineLoop(L, point, i + 1, acc)

\* Index of the line findLineAtPoint returns for a canvas point, 0 for null.
findLineAtPoint(point, L) ==
    findLineLoop(L, point, 1,
        [index |-> 0, num |-> THRESHOLD * THRESHOLD, den |-> 1,
         inf |-> TRUE, shortestSq |-> 0]).index

(* ------------------------------- inputs -------------------------------- *)

Buttons == {"primary", "secondary"}

Keys == {"Escape", "Control", "Delete"}

\* Contents of the files handed to the file input: JSON arrays of line records
\* written in an earlier session (ids before this session's clock readings).
ImportFiles ==
    { << >>,
      << [id |-> 0, start |-> [x |-> 0, y |-> 0], end |-> [x |-> 20, y |-> 0]] >>,
      << [id |-> 0, start |-> [x |-> 0, y |-> 0], end |-> [x |-> 20, y |-> 0]],
         [id |-> 0, start |-> [x |-> 20, y |-> 0], end |-> [x |-> 40, y |-> 0]] >> }

\* The status line of the render: lines[selectedLine].start is read when the
\* preview readout is not shown and a line is selected in update mode; the read
\* throws when selectedLine is past the end of the store.
statusRenders ==
    IF currentPoint # null /\ hoverPoint # null
    THEN TRUE
    ELSE IF isUpdateMode /\ selectedLine # 0
    THEN selectedLine <= Len(lines)
    ELSE TRUE

\* The draw effect: drawLine reads line.start.x and line.end.x of every
\* element of the store and throws when start or end is missing.
drawRenders ==
    \A i \in 1..Len(lines) : {"start", "end"} \subseteq DOMAIN lines[i]

Init ==
    /\ lines = << >>
    /\ currentPoint = null
    /\ hoverPoint = null
    /\ selectedPoint = null
    /\ snapPoint = null
    /\ isUpdateMode = FALSE
    /\ selectedLine = 0
    /\ isDragging = FALSE
    /\ dragStart = null
    /\ useFineGrid = FALSE
    /\ mounted = TRUE
    /\ clock = 0
    /\ pointer = null
    /\ ctrlHeld = FALSE
    /\ pressed = "none"
    /\ due = "none"
    /\ lastEvent = "init"
    /\ picked = null
    /\ sessionDid = {}
    /\ zoom = 10
    /\ offset = [x |-> <<0, 1>>, y |-> <<0, 1>>]
    /\ started = TRUE
    /\ storage = noItem
    /\ timers = {[lines |-> << >>, elapsed |-> 0, latest |-> TRUE]}
    /\ download = noItem
    /\ uncaughtError = FALSE
    /\ exportedLines = << >>
    /\ answer = [fn |-> "none", index |-> 0, point |-> null]

(* ------------------------------- helpers ------------------------------- *)

\* lines.map(line => line.id === sel.lineId ? {...line, [sel.pointKey]: p} : line)
setEndpoint(L, sel, p) ==
    [i \in 1..Len(L) |->
        IF L[i].id = sel.lineId
        THEN IF sel.pointKey = "start"
             THEN [L[i] EXCEPT !.start = p]
             ELSE [L[i] EXCEPT !.end = p]
        ELSE L[i]]

\* Mutation of spliceOne: pop() for splice(index, 1).
spliceOne_last(L, index) == SubSeq(L, 1, Len(L) - 1)

\* updatedLines.splice(index, 1) on a copy (index 1-based; past the end removes nothing).
spliceOne(L, index) ==
    [i \in 1..(IF index <= Len(L) THEN Len(L) - 1 ELSE Len(L)) |->
        IF i < index THEN L[i] ELSE L[i + 1]]

\* Mutation of filterZeroLength: `>= 0` for `> 0`.
filterZeroLength_keepAll(L) == L

\* Mutation of filterZeroLength: only the first zero-length line is dropped.
filterZeroLength_firstOnly(L) ==
    IF \E i \in 1..Len(L) : L[i].start = L[i].end
    THEN LET first == CHOOSE i \in 1..Len(L) :
                        /\ L[i].start = L[i].end
                        /\ \A j \in 1..(i - 1) : L[j].start # L[j].end
         IN  [k \in 1..(Len(L) - 1) |-> IF k < first THEN L[k] ELSE L[k + 1]]
    ELSE L

\* lines.filter(line => calculateLength(line.start, line.end) > 0)
RECURSIVE filterZeroLength(_)
filterZeroLength(L) ==
    IF L = << >>
    THEN << >>
    ELSE IF calculateLength(Head(L).start, Head(L).end) > 0
    THEN <<Head(L)>> \o filterZeroLength(Tail(L))
    ELSE filterZeroLength(Tail(L))

\* Mutation of newLine: the endpoints the other way round.
newLine_reversed(now, cp, snapped) == [id |-> now, start |-> snapped, end |-> cp]

\* {id: Date.now(), start: currentPoint, end: snapped}
newLine(now, cp, snapped) == [id |-> now, start |-> cp, end |-> snapped]

\* Mutation of appendLine: the new line is put in front.
appendLine_front(L, line) == <<line>> \o L

\* [...lines, newLine]
appendLine(L, line) == Append(L, line)

\* Mutation of snappedAt: the grid snap, whatever endpoints are near.
snappedAt_gridOnly(point) == snapToGrid(point, useFineGrid)

\* The snap of handleMouseMove and handleClick: nearby endpoint first, grid otherwise.
snappedAt(point) ==
    LET nearbyPoint == findNearbyPoint(point, lines, currentPoint)
    IN  IF nearbyPoint # null THEN nearbyPoint ELSE snapToGrid(point, useFineGrid)

\* Mutation of moveCoord: the moved coordinate is not rounded to the grid.
moveCoord_unrounded(v, d) == v + d

\* Mutation of moveCoord: the quotient is cut off towards zero (Math.trunc).
moveCoord_truncated(v, d) ==
    (IF v + d >= 0 THEN (v + d) \div GRID_SIZE
     ELSE 0 - ((0 - (v + d)) \div GRID_SIZE)) * GRID_SIZE

\* Math.round((v + d) / GRID_SIZE) * GRID_SIZE of the whole-line move.
moveCoord(v, d) == MathRoundDiv(v + d, GRID_SIZE) * GRID_SIZE

inWorld(p) == p.x \in 0..MaxCoord /\ p.y \in 0..MaxCoord

(* ------------------------------- handlers ------------------------------ *)
(* Each handler is a relation on the component's state (appVars).          *)

\* window keydown: both registered listeners run (the Escape-only one second).
handleKeyDown(key) ==
    /\ IF key = "Escape"
       THEN /\ currentPoint' = null
            /\ hoverPoint' = null
            /\ snapPoint' = null
            /\ isUpdateMode' = FALSE
            /\ selectedLine' = 0
            /\ selectedPoint' = null
            /\ UNCHANGED lines
       ELSE IF key = "Control"
       THEN /\ isUpdateMode' = TRUE
            /\ UNCHANGED <<lines, currentPoint, hoverPoint, snapPoint,
                           selectedLine, selectedPoint>>
       ELSE /\ key = "Delete"
            /\ IF isUpdateMode /\ selectedLine # 0
               THEN /\ lines' = spliceOne(lines, selectedLine)
                    /\ selectedLine' = 0
               ELSE UNCHANGED <<lines, selectedLine>>
            /\ UNCHANGED <<currentPoint, hoverPoint, snapPoint, isUpdateMode,
                           selectedPoint>>
    /\ UNCHANGED <<isDragging, dragStart, useFineGrid, clock>>
    /\ mounted' = statusRenders'

\* Mutation of handleKeyUp: without the selectedLine === null test.
handleKeyUp_alwaysExits ==
    /\ isUpdateMode' = FALSE
    /\ selectedPoint' = null
    /\ UNCHANGED <<lines, currentPoint, hoverPoint, snapPoint, selectedLine,
                   isDragging, dragStart, useFineGrid, clock>>
    /\ mounted' = statusRenders'

\* Mutation of modeAfterKeyUp: the endpoint selection is tested in place
\* of the line selection.
modeAfterKeyUp_testsPoint == IF selectedPoint = null THEN FALSE ELSE isUpdateMode

\* if (selectedLine === null) setIsUpdateMode(false)
modeAfterKeyUp == IF selectedLine = 0 THEN FALSE ELSE isUpdateMode

\* window keyup of the Control key.
handleKeyUp ==
    /\ isUpdateMode' = modeAfterKeyUp
    /\ selectedPoint' = null
    /\ UNCHANGED <<lines, currentPoint, hoverPoint, snapPoint, selectedLine,
                   isDragging, dragStart, useFineGrid, clock>>
    /\ mounted' = statusRenders'

\* canvas onMouseDown; the handler does not look at the button.
handleMouseDown(point) ==
    /\ IF ~isUpdateMode
       THEN UNCHANGED <<selectedPoint, selectedLine, isDragging, dragStart>>
       ELSE
         LET canvasPoint == canvasPointOf(point)
             hit == scanEndpoints(lines, canvasPoint, 1)
             lineAtPoint == findLineAtPoint(canvasPoint, lines)
         IN  IF hit # null
             THEN /\ selectedPoint' = [lineId |-> hit.lineId, pointKey |-> hit.pointKey]
                  /\ isDragging' = TRUE
                  /\ dragStart' = canvasPoint
                  /\ UNCHANGED selectedLine
             ELSE IF lineAtPoint # 0
             THEN /\ selectedLine' = lineAtPoint
                  /\ isDragging' = TRUE
                  /\ dragStart' = canvasPoint
                  /\ UNCHANGED selectedPoint
             ELSE /\ selectedLine' = 0
                  /\ UNCHANGED <<selectedPoint, isDragging, dragStart>>
    /\ UNCHANGED <<lines, currentPoint, hoverPoint, snapPoint, isUpdateMode,
                   useFineGrid, clock>>
    /\ mounted' = statusRenders'

\* Mutation of handleMouseUp: the line selection is cleared on every release.
handleMouseUp_deselects ==
    /\ selectedPoint' = null
    /\ lines' = filterZeroLength(lines)
    /\ selectedLine' = 0
    /\ isDragging' = FALSE
    /\ dragStart' = null
    /\ UNCHANGED <<currentPoint, hoverPoint, snapPoint, isUpdateMode,
                   useFineGrid, clock>>
    /\ mounted' = statusRenders'

\* canvas onMouseUp.
handleMouseUp ==
    /\ selectedPoint' = null
    /\ LET updatedLines == filterZeroLength(lines)
       IN  IF Len(updatedLines) # Len(lines)
           THEN /\ lines' = updatedLines
                /\ selectedLine' = 0
           ELSE UNCHANGED <<lines, selectedLine>>
    /\ isDragging' = FALSE
    /\ dragStart' = null
    /\ UNCHANGED <<currentPoint, hoverPoint, snapPoint, isUpdateMode,
                   useFineGrid, clock>>
    /\ mounted' = statusRenders'

\* canvas onMouseMove.
\* Mutation of dragSession: an armed endpoint follows the pointer without a
\* drag.
dragSession_endpointArmed ==
    isUpdateMode /\ ((isDragging /\ dragStart # null) \/ selectedPoint # null)

\* isUpdateMode && isDragging && dragStart
dragSession == isUpdateMode /\ isDragging /\ dragStart # null

handleMouseMove(point) ==
    /\ LET snapped == snappedAt(point)
       IN  /\ snapPoint' = snapped
           /\ IF dragSession
              THEN IF selectedPoint # null
                   THEN \* moving a line endpoint
                        /\ lines' = setEndpoint(lines, selectedPoint, snapped)
                        /\ UNCHANGED <<dragStart, hoverPoint>>
                   ELSE IF selectedLine # 0 /\ selectedLine <= Len(lines)
                   THEN \* moving an entire line
                        LET line == lines[selectedLine]
                            dx == snapped.x - dragStart.x
                            dy == snapped.y - dragStart.y
                            newStart == [x |-> moveCoord(line.start.x, dx),
                                         y |-> moveCoord(line.start.y, dy)]
                            newEnd == [x |-> moveCoord(line.end.x, dx),
                                       y |-> moveCoord(line.end.y, dy)]
                        IN  /\ inWorld(newStart) /\ inWorld(newEnd)
                            /\ lines' = [lines EXCEPT ![selectedLine] =
                                            [line EXCEPT !.start = newStart, !.end = newEnd]]
                            /\ dragStart' = snapped
                            /\ UNCHANGED hoverPoint
                   ELSE \* nothing selected, or lines[selectedLine] is undefined and
                        \* line.start throws before any further state is set
                        UNCHANGED <<lines, dragStart, hoverPoint>>
              ELSE /\ hoverPoint' = IF ~isUpdateMode THEN snapped ELSE hoverPoint
                   /\ UNCHANGED <<lines, dragStart>>
    /\ UNCHANGED <<currentPoint, selectedPoint, isUpdateMode, selectedLine,
                   isDragging, useFineGrid, clock>>
    /\ mounted' = statusRenders'

\* canvas onClick.
handleClick(point) ==
    /\ LET snapped == snappedAt(point)
           canvasPoint == canvasPointOf(point)
       IN  IF isUpdateMode
           THEN /\ IF /\ findLineAtPoint(canvasPoint, lines) = 0
                      /\ scanEndpoints(lines, canvasPoint, 1) = null
                   THEN /\ selectedLine' = 0
                        /\ selectedPoint' = null
                   ELSE UNCHANGED <<selectedLine, selectedPoint>>
                /\ UNCHANGED <<lines, currentPoint, hoverPoint, snapPoint, clock>>
           ELSE IF selectedPoint # null
           THEN /\ lines' = setEndpoint(lines, selectedPoint, snapped)
                /\ selectedPoint' = null
                /\ snapPoint' = null
                /\ UNCHANGED <<currentPoint, hoverPoint, selectedLine, clock>>
           ELSE IF currentPoint = null
           THEN /\ currentPoint' = snapped
                /\ UNCHANGED <<lines, hoverPoint, snapPoint, selectedLine,
                               selectedPoint, clock>>
           ELSE /\ Len(lines) < MaxLines
                /\ clock < MaxClock
                /\ clock' = clock + 1
                /\ lines' = appendLine(lines, newLine(clock', currentPoint, snapped))
                /\ currentPoint' = null
                /\ hoverPoint' = null
                /\ snapPoint' = null
                /\ UNCHANGED <<selectedLine, selectedPoint>>
    /\ UNCHANGED <<isUpdateMode, isDragging, dragStart, useFineGrid>>
    /\ mounted' = statusRenders'

\* canvas onContextMenu.
handlePointSelect(point) ==
    /\ LET hit == scanEndpoints(lines, canvasPointOf(point), 1)
       IN  IF hit # null
           THEN selectedPoint' = [lineId |-> hit.lineId, pointKey |-> hit.pointKey]
           ELSE UNCHANGED selectedPoint
    /\ UNCHANGED <<lines, currentPoint, hoverPoint, snapPoint, isUpdateMode,
                   selectedLine, isDragging, dragStart, useFineGrid, clock>>
    /\ mounted' = statusRenders'

\* reader.onload of handleLoad, for a file that parses to an array of line records.
handleLoad(loadedLines) ==
    /\ lines' = loadedLines
    /\ UNCHANGED <<currentPoint, hoverPoint, selectedPoint, snapPoint,
                   isUpdateMode, selectedLine, isDragging, dragStart, useFineGrid,
                   clock>>
    /\ mounted' = (statusRenders' /\ drawRenders')

\* Clear button; confirmed is the answer given to window.confirm.
\* Mutation of handleClear: the pending point of a line under construction
\* is kept.
handleClear_keepsPending(confirmed) ==
    /\ IF confirmed
       THEN /\ lines' = << >>
            /\ hoverPoint' = null
            /\ selectedPoint' = null
            /\ snapPoint' = null
            /\ selectedLine' = 0
            /\ UNCHANGED currentPoint
       ELSE UNCHANGED <<lines, currentPoint, hoverPoint, selectedPoint, snapPoint,
                        selectedLine>>
    /\ UNCHANGED <<isUpdateMode, isDragging, dragStart, useFineGrid, clock>>
    /\ mounted' = statusRenders'

handleClear(confirmed) ==
    /\ IF confirmed
       THEN /\ lines' = << >>
            /\ currentPoint' = null
            /\ hoverPoint' = null
            /\ selectedPoint' = null
            /\ snapPoint' = null
            /\ selectedLine' = 0
       ELSE UNCHANGED <<lines, currentPoint, hoverPoint, selectedPoint, snapPoint,
                        selectedLine>>
    /\ UNCHANGED <<isUpdateMode, isDragging, dragStart, useFineGrid, clock>>
    /\ mounted' = statusRenders'

\* onChange of the "Fine Grid (1mm)" checkbox.
toggleFineGrid ==
    /\ useFineGrid' = ~useFineGrid
    /\ UNCHANGED <<lines, currentPoint, hoverPoint, selectedPoint, snapPoint,
                   isUpdateMode, selectedLine, isDragging, dragStart, clock>>
    /\ mounted' = statusRenders'

(* ---------------------------- input surface ---------------------------- *)
(* The browser delivers the handlers' events.  Button events carry the     *)
(* position of the latest pointer-move.  A primary press and release on    *)
(* the canvas is followed at once by click; a secondary press raises       *)
(* contextmenu either right after the press or right after the release,    *)
(* depending on the platform.                                              *)

idle == mounted /\ due = "none"

KeyDown(key) ==
    /\ idle
    /\ handleKeyDown(key)
    /\ ctrlHeld' = IF key = "Control" THEN TRUE ELSE ctrlHeld
    /\ UNCHANGED <<pointer, pressed, due>>

KeyUp ==
    /\ idle
    /\ ctrlHeld
    /\ handleKeyUp
    /\ ctrlHeld' = FALSE
    /\ UNCHANGED <<pointer, pressed, due>>

PointerMove(point) ==
    /\ idle
    /\ handleMouseMove(point)
    /\ pointer' = point
    /\ UNCHANGED <<ctrlHeld, pressed, due>>

PointerDown(button) ==
    /\ idle
    /\ pointer # null
    /\ pressed = "none"
    /\ handleMouseDown(pointer)
    /\ \/ /\ pressed' = button
          /\ due' = "none"
       \/ /\ button = "secondary"          \* contextmenu raised by the press
          /\ pressed' = "secondaryShown"
          /\ due' = "contextmenu"
    /\ UNCHANGED <<pointer, ctrlHeld>>

PointerUp ==
    /\ idle
    /\ pressed # "none"
    /\ handleMouseUp
    /\ pressed' = "none"
    /\ due' = IF pressed = "primary" THEN "click"
              ELSE IF pressed = "secondary" THEN "contextmenu"
              ELSE "none"
    /\ UNCHANGED <<pointer, ctrlHeld>>

PrimaryClick ==
    /\ mounted
    /\ due = "click"
    /\ handleClick(pointer)
    /\ due' = "none"
    /\ UNCHANGED <<pointer, ctrlHeld, pressed>>

\* contextmenu, raised by the press of the secondary button or by its release.
SecondaryAction ==
    /\ mounted
    /\ due = "contextmenu"
    /\ handlePointSelect(pointer)
    /\ due' = "none"
    /\ UNCHANGED <<pointer, ctrlHeld, pressed>>

FileLoaded(loadedLines) ==
    /\ idle
    /\ handleLoad(loadedLines)
    /\ UNCHANGED inputVars

ClearClicked(confirmed) ==
    /\ idle
    /\ pressed = "none"
    /\ handleClear(confirmed)
    /\ UNCHANGED inputVars

FineGridToggled ==
    /\ idle
    /\ pressed = "none"
    /\ toggleFineGrid
    /\ UNCHANGED inputVars

(* ------------------------------- history ------------------------------- *)
(* History variables record what a property needs of the past; they are    *)
(* never read by a handler.  A specification keeps the ones in `track`.    *)

\* picked: the endpoint the latest secondary action armed, while only pointer
\* events have followed it.
pickedAfter(e) ==
    IF e = "contextmenu"
    THEN IF scanEndpoints(lines, canvasPointOf(pointer), 1) # null
         THEN selectedPoint'
         ELSE picked
    ELSE IF e \in {"mousedown", "mouseup", "mousemove"}
    THEN picked
    ELSE null

\* The lines of L that the endpoint reference sel names and whose endpoints coincide.
collapsedBy(L, sel) ==
    IF sel = null
    THEN {}
    ELSE {i \in 1..Len(L) : L[i].id = sel.lineId /\ L[i].start = L[i].end}

\* sessionDid: which branches of handleMouseMove have changed the store
\* since the latest pointer-down; after the pointer-up, "pruned" when the
\* release removed a line that the session's endpoint drag had collapsed.
sessionAfter(e) ==
    IF e = "mousedown"
    THEN {}
    ELSE IF e = "mouseup"
    THEN IF /\ "endpoint" \in sessionDid
            /\ isUpdateMode
            /\ collapsedBy(lines, selectedPoint) # {}
            /\ Len(lines') < Len(lines)
         THEN {"pruned"}
         ELSE {}
    ELSE IF e = "mousemove" /\ isUpdateMode /\ isDragging /\ dragStart # null
                            /\ lines' # lines
    THEN IF selectedPoint # null
         THEN sessionDid \cup {"endpoint"}
         ELSE sessionDid \cup {"line"}
    ELSE sessionDid

keyEvent(key) ==
    IF key = "Escape" THEN "keydown.Escape"
    ELSE IF key = "Control" THEN "keydown.Control"
    ELSE "keydown.Delete"

\* lastEvent: the event delivered last, with the branch its handler took
\* where it has several.
eventAndBranch(e) ==
    IF e = "click"
    THEN IF isUpdateMode THEN "click.update"
         ELSE IF selectedPoint # null THEN "click.relocate"
         ELSE IF currentPoint = null THEN "click.first"
         ELSE "click.second"
    ELSE IF e = "mousedown"
    THEN IF ~isUpdateMode THEN "mousedown"
         ELSE IF scanEndpoints(lines, canvasPointOf(pointer), 1) # null
         THEN "mousedown.endpoint"
         ELSE IF findLineAtPoint(canvasPointOf(pointer), lines) # 0
         THEN "mousedown.line"
         ELSE "mousedown.none"
    ELSE IF e = "mouseup"
    THEN IF Len(lines') < Len(lines) THEN "mouseup.pruned" ELSE "mouseup"
    ELSE IF e = "keyup"
    THEN IF isUpdateMode' THEN "keyup.kept" ELSE "keyup.exit"
    ELSE IF e = "keydown.Delete"
    THEN IF Len(lines') < Len(lines) THEN "keydown.Delete.line" ELSE "keydown.Delete"
    ELSE IF e = "mousemove"
    THEN IF ~(isUpdateMode /\ isDragging /\ dragStart # null) THEN "mousemove"
         ELSE IF selectedPoint # null THEN "mousemove.endpoint"
         ELSE IF selectedLine # 0 /\ selectedLine <= Len(lines) THEN "mousemove.line"
         ELSE "mousemove"
    ELSE IF e = "clear"
    THEN IF lines # << >> /\ lines' = << >> THEN "clear.emptied" ELSE "clear"
    ELSE e

Hist(track, e) ==
    /\ lastEvent' = IF "lastEvent" \in track THEN eventAndBranch(e) ELSE lastEvent
    /\ picked' = IF "picked" \in track THEN pickedAfter(e) ELSE picked
    /\ sessionDid' = IF "sessionDid" \in track THEN sessionAfter(e) ELSE sessionDid
    /\ UNCHANGED <<viewVars, persistVars, queryVars>>

(* ---------------------------- specifications --------------------------- *)

\* The events of the input surface with pointer positions, project files
\* and keys taken from the given sets.
StepOver(pixels, files, keys, track) ==
    \/ \E key \in keys : KeyDown(key) /\ Hist(track, keyEvent(key))
    \/ KeyUp /\ Hist(track, "keyup")
    \/ \E point \in pixels : PointerMove(point) /\ Hist(track, "mousemove")
    \/ \E button \in Buttons : PointerDown(button) /\ Hist(track, "mousedown")
    \/ PointerUp /\ Hist(track, "mouseup")
    \/ PrimaryClick /\ Hist(track, "click")
    \/ SecondaryAction /\ Hist(track, "contextmenu")
    \/ \E loadedLines \in files : FileLoaded(loadedLines) /\ Hist(track, "load")
    \/ \E confirmed \in BOOLEAN : ClearClicked(confirmed) /\ Hist(track, "clear")

Step(track) == StepOver(Pixels, ImportFiles, Keys, track)

Next == Step({})

Spec == Init /\ [][Next]_vars

NextPick == Step({"picked"})

SpecPick == Init /\ [][NextPick]_vars

NextSession == Step({"sessionDid"})

SpecSession == Init /\ [][NextSession]_vars

NextTrace == Step({"lastEvent"})

SpecTrace == Init /\ [][NextTrace]_vars

\* The pointer positions of the worked example: on a grid point and 5 pixels
\* right of one.
ScenarioPixels ==
    { [x |-> 100, y |-> 100],
      [x |-> 205, y |-> 100] }

NextScenario == StepOver(ScenarioPixels, ImportFiles, Keys, {"lastEvent"})

SpecScenario == Init /\ [][NextScenario]_vars

\* Project files for snapping: a line with an endpoint off the coarse grid.
SnapFiles ==
    { << >>,
      << [id |-> 1, start |-> [x |-> 0, y |-> 0], end |-> [x |-> 14, y |-> 4]] >> }

NextSnap == StepOver(Pixels, SnapFiles, Keys, {"lastEvent"})

SpecSnap == Init /\ [][NextSnap]_vars

(* ----------------------------- drag sessions --------------------------- *)
(* Update mode with the Control key held throughout, over a store loaded   *)
(* from a project file; the pointer, the buttons and the fine-grid         *)
(* checkbox are used.                                                      *)

\* Stores of project files: a line on the coarse grid, a line off it, two
\* lines with one id, two lines with different ids.
DragStores ==
    { << [id |-> 0, start |-> [x |-> 0, y |-> 0], end |-> [x |-> 20, y |-> 0]] >>,
      << [id |-> 1, start |-> [x |-> 0, y |-> 6], end |-> [x |-> 24, y |-> 6]] >>,
      << [id |-> 0, start |-> [x |-> 0, y |-> 0], end |-> [x |-> 20, y |-> 0]],
         [id |-> 0, start |-> [x |-> 20, y |-> 0], end |-> [x |-> 40, y |-> 0]] >>,
      << [id |-> 1, start |-> [x |-> 0, y |-> 0], end |-> [x |-> 20, y |-> 0]],
         [id |-> 2, start |-> [x |-> 20, y |-> 0], end |-> [x |-> 40, y |-> 0]] >> }

\* Update mode with Control held, over one of the given stores.
InitEdit(stores) ==
    /\ lines \in stores
    /\ currentPoint = null
    /\ hoverPoint = null
    /\ selectedPoint = null
    /\ snapPoint = null
    /\ isUpdateMode = TRUE
    /\ selectedLine = 0
    /\ isDragging = FALSE
    /\ dragStart = null
    /\ useFineGrid = FALSE
    /\ mounted = TRUE
    /\ clock = 0
    /\ pointer = null
    /\ ctrlHeld = TRUE
    /\ pressed = "none"
    /\ due = "none"
    /\ lastEvent = "init"
    /\ picked = null
    /\ sessionDid = {}
    /\ zoom = 10
    /\ offset = [x |-> <<0, 1>>, y |-> <<0, 1>>]
    /\ started = TRUE
    /\ storage = noItem
    /\ timers = {}
    /\ download = noItem
    /\ uncaughtError = FALSE
    /\ exportedLines = << >>
    /\ answer = [fn |-> "none", index |-> 0, point |-> null]

InitDrag == InitEdit(DragStores)

NextDrag ==
    \/ \E point \in Pixels : PointerMove(point) /\ Hist({"lastEvent"}, "mousemove")
    \/ \E button \in Buttons : PointerDown(button) /\ Hist({"lastEvent"}, "mousedown")
    \/ PointerUp /\ Hist({"lastEvent"}, "mouseup")
    \/ PrimaryClick /\ Hist({"lastEvent"}, "click")
    \/ SecondaryAction /\ Hist({"lastEvent"}, "contextmenu")
    \/ FineGridToggled /\ Hist({"lastEvent"}, "finegrid")

SpecDrag == InitDrag /\ [][NextDrag]_vars

(* --------------------------------- view -------------------------------- *)
(* Wheel zoom and zoom reset.  zoom is held in tenths and an offset         *)
(* coordinate as a fraction <<numerator, denominator>> in lowest terms, so  *)
(* the arithmetic of handleWheel is exact.                                  *)

\* Largest denominator and largest size, in pixels, of an offset coordinate
\* the wheel steps may produce.
MaxDen == 10

MaxOffset == 20

\* event.deltaY of a wheel event: a notch up or down.
WheelDeltas == {-100, 100}

RECURSIVE gcd(_, _)
gcd(a, b) == IF b = 0 THEN a ELSE gcd(b, a % b)

abs(n) == IF n < 0 THEN 0 - n ELSE n

\* The fraction n/d, d > 0, in lowest terms.
fraction(n, d) ==
    LET g == gcd(abs(n), d)
    IN  <<n \div g, d \div g>>

\* Mutation of offsetAfter: the offset is kept as it is.
offsetAfter_kept(mouse, o, newZoom) == fraction(o[1], o[2])

\* mouse - (mouse - o) * (newZoom / zoom) for an offset coordinate o.
offsetAfter(mouse, o, newZoom) ==
    fraction(mouse * o[2] * zoom - (mouse * o[2] - o[1]) * newZoom, o[2] * zoom)

\* setZoom and setOffset of handleWheel for the zoom it has computed.
zoomTowards(point, newZoom) ==
    /\ zoom' = newZoom
    /\ offset' = [x |-> offsetAfter(point.x, offset.x, newZoom),
                  y |-> offsetAfter(point.y, offset.y, newZoom)]

Max(a, b) == IF a >= b THEN a ELSE b

Min(a, b) == IF a <= b THEN a ELSE b

\* Mutation of handleWheel: the new zoom is not held at MIN_ZOOM.
handleWheel_noLowerClamp(point, deltaY) ==
    LET delta == IF deltaY > 0 THEN 0 - ZOOM_STEP ELSE ZOOM_STEP
        newZoom == Min(MAX_ZOOM, zoom + delta)
    IN  zoomTowards(point, newZoom)

\* canvas onWheel at the pointer position point.
handleWheel(point, deltaY) ==
    LET delta == IF deltaY > 0 THEN 0 - ZOOM_STEP ELSE ZOOM_STEP
        newZoom == Max(MIN_ZOOM, Min(MAX_ZOOM, zoom + delta))
    IN  zoomTowards(point, newZoom)

\* The "Reset Zoom" button.
handleResetZoom ==
    /\ zoom' = 10
    /\ offset' = [x |-> <<0, 1>>, y |-> <<0, 1>>]

\* A wheel notch at the position of the latest pointer-move.
WheelScrolled(deltaY) ==
    /\ idle
    /\ pointer # null
    /\ handleWheel(pointer, deltaY)
    /\ \A o \in {offset'.x, offset'.y} :
          o[2] <= MaxDen /\ abs(o[1]) <= MaxOffset * o[2]
    /\ UNCHANGED <<appVars, inputVars, historyVars, persistVars, queryVars>>

ResetZoomClicked ==
    /\ idle
    /\ pressed = "none"
    /\ handleResetZoom
    /\ UNCHANGED <<appVars, inputVars, historyVars, persistVars, queryVars>>

NextView ==
    \/ \E point \in Pixels : PointerMove(point) /\ Hist({}, "mousemove")
    \/ \E deltaY \in WheelDeltas : WheelScrolled(deltaY)
    \/ ResetZoomClicked
    \/ FineGridToggled /\ Hist({}, "finegrid")

SpecView == Init /\ [][NextView]_vars

(* -------------------------- queries on their own ----------------------- *)
(* The spatial queries are pure functions of the store, the pending start  *)
(* point and a pointer position; this specification starts from a store    *)
(* built of the lines below and asks them.                                 *)

QueryLines ==
    { [id |-> 1, start |-> [x |-> 0, y |-> 0],  end |-> [x |-> 40, y |-> 0]],
      [id |-> 2, start |-> [x |-> 0, y |-> 0],  end |-> [x |-> 120, y |-> 0]],
      [id |-> 3, start |-> [x |-> 0, y |-> 20], end |-> [x |-> 40, y |-> 20]],
      [id |-> 4, start |-> [x |-> 10, y |-> 0], end |-> [x |-> 10, y |-> 40]] }

\* Stores of up to MaxLines different lines, in every order.
QueryStores ==
    UNION { {L \in [1..n -> QueryLines] : \A i, j \in 1..n : i # j => L[i] # L[j]} :
            n \in 0..MaxLines }

QueryPoints ==
    { [x |-> 20, y |-> 3], [x |-> 20, y |-> 10], [x |-> 8, y |-> 0], [x |-> 20, y |-> 30] }

QueryPending == { null, [x |-> 0, y |-> 0] }

InitQuery ==
    /\ lines \in QueryStores
    /\ currentPoint \in QueryPending
    /\ pointer \in QueryPoints
    /\ hoverPoint = null
    /\ selectedPoint = null
    /\ snapPoint = null
    /\ isUpdateMode = FALSE
    /\ selectedLine = 0
    /\ isDragging = FALSE
    /\ dragStart = null
    /\ useFineGrid = FALSE
    /\ mounted = TRUE
    /\ clock = 0
    /\ ctrlHeld = FALSE
    /\ pressed = "none"
    /\ due = "none"
    /\ lastEvent = "init"
    /\ picked = null
    /\ sessionDid = {}
    /\ zoom = 10
    /\ offset = [x |-> <<0, 1>>, y |-> <<0, 1>>]
    /\ started = TRUE
    /\ storage = noItem
    /\ timers = {}
    /\ download = noItem
    /\ uncaughtError = FALSE
    /\ exportedLines = << >>
    /\ answer = [fn |-> "none", index |-> 0, point |-> null]

AskLineAtPoint ==
    /\ answer' = [fn |-> "findLineAtPoint",
                  index |-> findLineAtPoint(canvasPointOf(pointer), lines),
                  point |-> null]
    /\ UNCHANGED <<appVars, inputVars, historyVars, viewVars, persistVars>>

AskNearbyPoint ==
    /\ answer' = [fn |-> "findNearbyPoint",
                  index |-> 0,
                  point |-> findNearbyPoint(pointer, lines, currentPoint)]
    /\ UNCHANGED <<appVars, inputVars, historyVars, viewVars, persistVars>>

NextQuery == AskLineAtPoint \/ AskNearbyPoint

SpecQuery == InitQuery /\ [][NextQuery]_vars

(* ------------------------------ persistence ---------------------------- *)
(* JSON text is a sequence of tokens: the punctuation marks, "-", the      *)
(* decimal digits, and any other token is a string literal.  A parsed      *)
(* array is a sequence, a parsed object a function of its keys.            *)

Punct == {"[", "]", "{", "}", ",", ":"}

DigitTokens == <<"0", "1", "2", "3", "4", "5", "6", "7", "8", "9">>

DigitValue(tok) == (CHOOSE d \in 1..10 : DigitTokens[d] = tok) - 1

IsDigit(tok) == \E d \in 1..10 : DigitTokens[d] = tok

\* The decimal digits of a natural number, most significant first.
RECURSIVE digitsOf(_)
digitsOf(n) ==
    IF n < 10
    THEN <<DigitTokens[n + 1]>>
    ELSE Append(digitsOf(n \div 10), DigitTokens[(n % 10) + 1])

\* Mutation of numberText: the sign is left out.
numberText_unsigned(n) == digitsOf(IF n < 0 THEN 0 - n ELSE n)

numberText(n) == IF n < 0 THEN <<"-">> \o digitsOf(0 - n) ELSE digitsOf(n)

pointText(point) ==
    <<"{", "x", ":">> \o numberText(point.x) \o <<",", "y", ":">>
        \o numberText(point.y) \o <<"}">>

lineText(line) ==
    <<"{", "id", ":">> \o numberText(line.id) \o <<",", "start", ":">>
        \o pointText(line.start) \o <<",", "end", ":">> \o pointText(line.end)
        \o <<"}">>

RECURSIVE linesText(_, _)
linesText(L, i) ==
    IF i > Len(L)
    THEN << >>
    ELSE (IF i > 1 THEN <<",">> ELSE << >>) \o lineText(L[i]) \o linesText(L, i + 1)

\* JSON.stringify of a store of line records.
JSONstringify(L) == <<"[">> \o linesText(L, 1) \o <<"]">>

rest(s, n) == SubSeq(s, n + 1, Len(s))

syntaxError == [ok |-> FALSE, kind |-> "none", value |-> null, rest |-> << >>]

emptyObject == [k \in {} |-> null]

\* The digits at the front of s, read onto the number acc.
RECURSIVE parseDigits(_, _)
parseDigits(s, acc) ==
    IF s # << >> /\ IsDigit(s[1])
    THEN parseDigits(rest(s, 1), acc * 10 + DigitValue(s[1]))
    ELSE [ok |-> TRUE, kind |-> "number", value |-> acc, rest |-> s]

RECURSIVE parseValue(_), parseItems(_, _), parseMembers(_, _)

\* One JSON value at the front of s.
parseValue(s) ==
    IF s = << >>
    THEN syntaxError
    ELSE IF s[1] = "["
    THEN IF Len(s) >= 2 /\ s[2] = "]"
         THEN [ok |-> TRUE, kind |-> "array", value |-> << >>, rest |-> rest(s, 2)]
         ELSE parseItems(rest(s, 1), << >>)
    ELSE IF s[1] = "{"
    THEN IF Len(s) >= 2 /\ s[2] = "}"
         THEN [ok |-> TRUE, kind |-> "object", value |-> emptyObject, rest |-> rest(s, 2)]
         ELSE parseMembers(rest(s, 1), emptyObject)
    ELSE IF s[1] = "-"
    THEN IF Len(s) >= 2 /\ IsDigit(s[2])
         THEN LET n == parseDigits(rest(s, 1), 0)
              IN  [n EXCEPT !.value = 0 - n.value]
         ELSE syntaxError
    ELSE IF IsDigit(s[1])
    THEN parseDigits(s, 0)
    ELSE IF s[1] \in Punct
    THEN syntaxError
    ELSE [ok |-> TRUE, kind |-> "string", value |-> s[1], rest |-> rest(s, 1)]

\* The elements of an array after "[" or ",", up to and including "]".
parseItems(s, acc) ==
    LET item == parseValue(s)
    IN  IF ~item.ok \/ item.rest = << >>
        THEN syntaxError
        ELSE IF item.rest[1] = ","
        THEN parseItems(rest(item.rest, 1), Append(acc, item.value))
        ELSE IF item.rest[1] = "]"
        THEN [ok |-> TRUE, kind |-> "array", value |-> Append(acc, item.value),
              rest |-> rest(item.rest, 1)]
        ELSE syntaxError

\* The members of an object after "{" or ",", up to and including "}".
parseMembers(s, acc) ==
    IF Len(s) < 3 \/ s[1] \in Punct \/ s[1] = "-" \/ IsDigit(s[1]) \/ s[2] # ":"
    THEN syntaxError
    ELSE
        LET member == parseValue(rest(s, 2))
        IN  IF ~member.ok \/ member.rest = << >>
            THEN syntaxError
            ELSE IF member.rest[1] = ","
            THEN parseMembers(rest(member.rest, 1), (s[1] :> member.value) @@ acc)
            ELSE IF member.rest[1] = "}"
            THEN [ok |-> TRUE, kind |-> "object",
                  value |-> (s[1] :> member.value) @@ acc,
                  rest |-> rest(member.rest, 1)]
            ELSE syntaxError

\* JSON.parse: a value and nothing after it; ok is FALSE where it throws.
JSONparse(text) ==
    LET parsed == parseValue(text)
    IN  IF parsed.ok /\ parsed.rest = << >> THEN parsed ELSE syntaxError

\* Ticks of the clock in the one-second delay of the save timer.
DelayTicks == 2

\* Mutation of saveEffect: the cleanup does not clear the earlier timer.
saveEffect_noCleanup(T, L) ==
    {[t EXCEPT !.latest = FALSE] : t \in T}
        \cup {[lines |-> L, elapsed |-> 0, latest |-> TRUE]}

\* The debounced save effect on a render with a new store L: the cleanup of
\* the previous run clears the timer that run had set (the latest one), then
\* a timer is set that is to write L.
saveEffect(T, L) ==
    {t \in T : ~t.latest} \cup {[lines |-> L, elapsed |-> 0, latest |-> TRUE]}

\* The timers after a handler that has called setLines: the save effect has
\* run, unless the render threw and React has unmounted the component, whose
\* effect cleanups clear the timer.
timersAfterSetLines ==
    timers' = IF mounted' THEN saveEffect(timers, lines') ELSE {}

\* Some timer was part-way through its delay and has been cleared.
cancelsPending == \E t \in timers : t.elapsed > 0

PersistFiles ==
    ImportFiles \cup
    { << [id |-> 1234, start |-> [x |-> -20, y |-> 0], end |-> [x |-> 105, y |-> 40]] >> }

\* The text of a project file of one line, from (-20,0) to (105,40), id 1234.
signedFileText ==
    << "[", "{", "id", ":", "1", "2", "3", "4", ",",
       "start", ":", "{", "x", ":", "-", "2", "0", ",", "y", ":", "0", "}", ",",
       "end", ":", "{", "x", ":", "1", "0", "5", ",", "y", ":", "4", "0", "}",
       "}", "]" >>

\* A truncated file, an array of an object that is no line, and project files.
ImportTexts ==
    { <<"[">>, <<"[", "{", "}", "]">>, signedFileText }
        \cup {JSONstringify(L) : L \in ImportFiles}

\* What localStorage may hold when the application starts.
Blobs ==
    { noItem,
      [present |-> TRUE, text |-> << >>],
      [present |-> TRUE, text |-> <<"{", "}">>] }
    \cup {[present |-> TRUE, text |-> text] : text \in ImportTexts}

InitPersist ==
    /\ lines = << >>
    /\ currentPoint = null
    /\ hoverPoint = null
    /\ selectedPoint = null
    /\ snapPoint = null
    /\ isUpdateMode = FALSE
    /\ selectedLine = 0
    /\ isDragging = FALSE
    /\ dragStart = null
    /\ useFineGrid = FALSE
    /\ mounted = TRUE
    /\ clock = 0
    /\ pointer = [x |-> 0, y |-> 0]
    /\ ctrlHeld = FALSE
    /\ pressed = "none"
    /\ due = "none"
    /\ lastEvent = "init"
    /\ picked = null
    /\ sessionDid = {}
    /\ zoom = 10
    /\ offset = [x |-> <<0, 1>>, y |-> <<0, 1>>]
    /\ started = FALSE
    /\ storage \in Blobs
    /\ timers = {}
    /\ download = noItem
    /\ uncaughtError = FALSE
    /\ exportedLines = << >>
    /\ answer = [fn |-> "none", index |-> 0, point |-> null]

\* Mutation of loadEffect: the item is never loaded.
loadEffect_noLoad(savedData) == [setsLines |-> FALSE, value |-> << >>]

\* The load effect on the item read from localStorage: setLines is called
\* when the item is there, not empty, parses, and parses to an array; the
\* error JSON.parse throws is caught and logged.
loadEffect(savedData) ==
    LET parsedData == JSONparse(savedData.text)
    IN  IF /\ savedData.present /\ savedData.text # << >>
           /\ parsedData.ok /\ parsedData.kind = "array"
        THEN [setsLines |-> TRUE, value |-> parsedData.value]
        ELSE [setsLines |-> FALSE, value |-> << >>]

\* Mutation of mountTimers: the save effect does not run again on the render
\* that the load causes.
mountTimers_firstRenderOnly(loaded) == saveEffect(timers, lines)

\* The save timers after the first render and, when the load effect has
\* called setLines, the render with the loaded store.
mountTimers(loaded) ==
    IF loaded.setsLines
    THEN saveEffect(saveEffect(timers, lines), loaded.value)
    ELSE saveEffect(timers, lines)

\* The first render and its effects: the load effect reads the item once;
\* the save effect runs on the first render and again on the render that
\* setLines causes.
Mount ==
    /\ ~started
    /\ started' = TRUE
    /\ UNCHANGED <<currentPoint, hoverPoint, selectedPoint, snapPoint, isUpdateMode,
                   selectedLine, isDragging, dragStart, useFineGrid, clock>>
    /\ LET loaded == loadEffect(storage)
       IN  /\ lines' = IF loaded.setsLines THEN loaded.value ELSE lines
           /\ mounted' = (statusRenders' /\ drawRenders')
           /\ timers' = IF ~mounted' THEN {} ELSE mountTimers(loaded)
    /\ uncaughtError' = ~mounted'
    /\ lastEvent' = "mount"
    /\ UNCHANGED <<inputVars, picked, sessionDid, viewVars, storage, download,
                   exportedLines, queryVars>>

\* reader.onload of handleLoad on a file of the given text: JSON.parse is not
\* in a try block, and its result goes to setLines unexamined.  (The texts
\* imported here parse to arrays of objects or do not parse.)
readerOnload(text) ==
    /\ started /\ mounted
    /\ LET loadedLines == JSONparse(text)
       IN  IF ~loadedLines.ok
           THEN /\ uncaughtError' = TRUE
                /\ lastEvent' = "import.threw"
                /\ UNCHANGED <<appVars, timers, sessionDid>>
           ELSE /\ loadedLines.kind = "array"
                /\ handleLoad(loadedLines.value)
                /\ timersAfterSetLines
                /\ uncaughtError' = (uncaughtError \/ ~mounted')
                /\ lastEvent' = IF download.present /\ text = download.text
                                THEN "import.exported"
                                ELSE "import"
                /\ sessionDid' = IF cancelsPending
                                 THEN sessionDid \cup {"cancelled"}
                                 ELSE sessionDid
    /\ UNCHANGED <<inputVars, picked, viewVars, started, storage, download,
                   exportedLines, queryVars>>

\* The file chosen for import: one of the import texts or the download.
FileChosen ==
    \E text \in ImportTexts \cup (IF download.present THEN {download.text} ELSE {}) :
        readerOnload(text)

\* The Clear button with the save effect of the render that follows.
ClearSaved(confirmed) ==
    /\ started /\ mounted
    /\ handleClear(confirmed)
    /\ IF confirmed
       THEN /\ timersAfterSetLines
            /\ sessionDid' = IF cancelsPending
                             THEN sessionDid \cup {"cancelled"}
                             ELSE sessionDid
       ELSE UNCHANGED <<timers, sessionDid>>
    /\ lastEvent' = "clear"
    /\ UNCHANGED <<inputVars, picked, viewVars, started, storage, download,
                   uncaughtError, exportedLines, queryVars>>

\* The Save button: the store is serialised into the download project.txt.
handleSave ==
    /\ started /\ mounted
    /\ download' = [present |-> TRUE, text |-> JSONstringify(lines)]
    /\ exportedLines' = lines
    /\ lastEvent' = "save"
    /\ UNCHANGED <<appVars, inputVars, picked, sessionDid, viewVars, started,
                   storage, timers, uncaughtError, queryVars>>

\* Time passes; a timer whose delay is over fires before more time passes.
Tick ==
    /\ timers # {}
    /\ \A t \in timers : t.elapsed < DelayTicks
    /\ timers' = {[t EXCEPT !.elapsed = @ + 1] : t \in timers}
    /\ lastEvent' = "tick"
    /\ UNCHANGED <<appVars, inputVars, picked, sessionDid, viewVars, started,
                   storage, download, uncaughtError, exportedLines, queryVars>>

\* Mutation of TimerFires: the timer fires after one tick.
TimerFires_early ==
    /\ \E t \in timers :
          /\ t.elapsed >= 1
          /\ storage' = [present |-> TRUE, text |-> JSONstringify(t.lines)]
          /\ timers' = timers \ {t}
    /\ lastEvent' = "write"
    /\ UNCHANGED <<appVars, inputVars, picked, sessionDid, viewVars, started,
                   download, uncaughtError, exportedLines, queryVars>>

\* The callback of a save timer: localStorage.setItem of the serialised
\* store of the render that set the timer.
TimerFires ==
    /\ \E t \in timers :
          /\ t.elapsed = DelayTicks
          /\ storage' = [present |-> TRUE, text |-> JSONstringify(t.lines)]
          /\ timers' = timers \ {t}
    /\ lastEvent' = "write"
    /\ UNCHANGED <<appVars, inputVars, picked, sessionDid, viewVars, started,
                   download, uncaughtError, exportedLines, queryVars>>

NextPersist ==
    \/ Mount
    \/ FileChosen
    \/ \E confirmed \in BOOLEAN : ClearSaved(confirmed)
    \/ handleSave
    \/ Tick
    \/ TimerFires

SpecPersist == InitPersist /\ [][NextPersist]_vars

\* The timer is a browser timer and time passes: a tick or a due write that
\* stays possible happens.
SpecPersistLive ==
    /\ InitPersist
    /\ [][NextPersist]_vars
    /\ WF_vars(Tick)
    /\ WF_vars(TimerFires)

(* ------------------------------ length input --------------------------- *)
(* The length field shown for the selected line.  Its text is a sequence   *)
(* of characters; lengths are whole millimetres and the lines horizontal   *)
(* or vertical, for which the cosine and sine are taken as 0, 1 and -1.    *)

LengthTexts ==
    { << >>, <<"a">>, <<"0">>, <<"-", "5">>, <<"5", "a">>, <<"5">>, <<"1", "5">> }

NaN == [nan |-> TRUE, value |-> 0]

\* parseFloat: the number at the front of the text, NaN when there is none.
parseFloat(text) ==
    LET negative == text # << >> /\ text[1] = "-"
        body == IF negative THEN Tail(text) ELSE text
    IN  IF body = << >> \/ ~IsDigit(body[1])
        THEN NaN
        ELSE [nan |-> FALSE,
              value |-> IF negative THEN 0 - parseDigits(body, 0).value
                        ELSE parseDigits(body, 0).value]

\* isNaN of a string: Number(text) is NaN unless the whole text is a number
\* (the empty text converts to 0).
isNaN(text) ==
    LET body == IF text # << >> /\ text[1] = "-" THEN Tail(text) ELSE text
    IN  /\ text # << >>
        /\ (body = << >> \/ \E i \in 1..Len(body) : ~IsDigit(body[i]))

\* Mutation of lengthAccepted: the sign of the number is not tested.
lengthAccepted_anySign(text) ==
    text # << >> /\ ~isNaN(text) /\ ~parseFloat(text).nan

\* e.target.value && !isNaN(e.target.value) && parseFloat(e.target.value) > 0
lengthAccepted(text) ==
    text # << >> /\ ~isNaN(text) /\ ~parseFloat(text).nan /\ parseFloat(text).value > 0

axisAligned(line) == line.start.x = line.end.x \/ line.start.y = line.end.y

sign(n) == IF n > 0 THEN 1 ELSE IF n < 0 THEN -1 ELSE 0

\* Mutation of calculateEndPointFromLength: the default angle 0 for every
\* direction.
calculateEndPointFromLength_horizontal(startPoint, length, direction) ==
    IF startPoint = null \/ length = 0
    THEN null
    ELSE [x |-> startPoint.x + (length * GRID_SIZE) \div MM_PER_GRID,
          y |-> startPoint.y]

\* calculateEndPointFromLength for a direction along an axis; the direction
\* (0,0) has the angle 0.
calculateEndPointFromLength(startPoint, length, direction) ==
    IF startPoint = null \/ length = 0
    THEN null
    ELSE
        LET reach == (length * GRID_SIZE) \div MM_PER_GRID
        IN  IF direction.y = 0
            THEN [x |-> startPoint.x + (IF direction.x < 0 THEN 0 - reach ELSE reach),
                  y |-> startPoint.y]
            ELSE [x |-> startPoint.x,
                  y |-> startPoint.y + sign(direction.y) * reach]

\* onChange of the length field.
lengthInputChange(text) ==
    /\ IF lengthAccepted(text)
       THEN LET line == lines[selectedLine]
                direction == [x |-> line.end.x - line.start.x,
                              y |-> line.end.y - line.start.y]
                newEnd == calculateEndPointFromLength(line.start,
                                                      parseFloat(text).value, direction)
            IN  IF newEnd # null
                THEN lines' = [lines EXCEPT ![selectedLine] =
                                  [line EXCEPT !.end = newEnd]]
                ELSE UNCHANGED lines
       ELSE UNCHANGED lines
    /\ UNCHANGED <<currentPoint, hoverPoint, selectedPoint, snapPoint, isUpdateMode,
                   selectedLine, isDragging, dragStart, useFineGrid, clock>>
    /\ mounted' = statusRenders'

\* Text typed into the length field, which is shown for a selected line in
\* update mode when the preview readout is not.
LengthTyped(text) ==
    /\ idle
    /\ isUpdateMode
    /\ selectedLine \in 1..Len(lines)
    /\ ~(currentPoint # null /\ hoverPoint # null)
    /\ axisAligned(lines[selectedLine])
    /\ lengthInputChange(text)
    /\ UNCHANGED inputVars

\* Stores of project files with horizontal lines.
LengthStores ==
    { << [id |-> 0, start |-> [x |-> 0, y |-> 0], end |-> [x |-> 20, y |-> 0]] >>,
      << [id |-> 1, start |-> [x |-> 20, y |-> 0], end |-> [x |-> 0, y |-> 0]],
         [id |-> 2, start |-> [x |-> 20, y |-> 0], end |-> [x |-> 40, y |-> 0]] >> }

InitLength == InitEdit(LengthStores)

NextLength ==
    \/ \E point \in Pixels : PointerMove(point) /\ Hist({"lastEvent"}, "mousemove")
    \/ \E button \in Buttons : PointerDown(button) /\ Hist({"lastEvent"}, "mousedown")
    \/ PointerUp /\ Hist({"lastEvent"}, "mouseup")
    \/ PrimaryClick /\ Hist({"lastEvent"}, "click")
    \/ SecondaryAction /\ Hist({"lastEvent"}, "contextmenu")
    \/ \E text \in LengthTexts :
          LengthTyped(text) /\ Hist({"lastEvent"},
                                    IF lengthAccepted(text) THEN "length.set"
                                    ELSE "length.ignored")

SpecLength == InitLength /\ [][NextLength]_vars

\* A length that keeps the end of a line on the coarse grid.
GridLengthTexts == { <<"1", "0">> }

\* The canvas, the keys, the file input, the Clear button and the length field.
NextEdit ==
    \/ Step({"lastEvent"})
    \/ \E text \in GridLengthTexts :
          LengthTyped(text) /\ Hist({"lastEvent"}, "length.set")

SpecEdit == Init /\ [][NextEdit]_vars

(* ------------------------------ properties ----------------------------- *)

\* Computed length of a stored line: calculateLength(line.start, line.end).
lengthOf(line) == calculateLength(line.start, line.end)

\* References <<index, key>> of the endpoints within threshold of canvas point p.
endpointsNear(p) ==
    {h \in (1..Len(lines)) \X {"start", "end"} :
        distanceSq(lines[h[1]][h[2]], p) < THRESHOLD * THRESHOLD}

\* h comes first in store order, start before end, among the references in S.
firstInStoreOrder(h, S) ==
    \A g \in S : h[1] < g[1] \/ (h[1] = g[1] /\ (h[2] = "start" \/ g[2] = "end"))

\* L without its element at position index (L itself when there is none).
without(L, index) ==
    [k \in 1..(Len(L) - (IF index \in 1..Len(L) THEN 1 ELSE 0)) |->
        IF k < index THEN L[k] ELSE L[k + 1]]

\* C1: outside update mode with no endpoint pending edit, the first primary
\* click only sets currentPoint to the snapped click location and leaves the
\* store unchanged; the second click appends exactly one line from currentPoint
\* to the snapped location at the end of the store, leaves every existing line
\* unchanged, and clears currentPoint.
C1_TwoClicksMakeOneLine ==
    [][(PrimaryClick /\ ~isUpdateMode /\ selectedPoint = null) =>
        IF currentPoint = null
        THEN /\ currentPoint' = snappedAt(pointer)
             /\ lines' = lines
        ELSE /\ Len(lines') = Len(lines) + 1
             /\ SubSeq(lines', 1, Len(lines)) = lines
             /\ lines'[Len(lines')].start = currentPoint
             /\ lines'[Len(lines')].end = snappedAt(pointer)
             /\ currentPoint' = null]_vars

\* A second click has just completed a line of non-zero length.
C1_SecondClickDone ==
    /\ lastEvent = "click.second"
    /\ currentPoint = null
    /\ Len(lines) >= 1
    /\ lines[Len(lines)].id = clock
    /\ lines[Len(lines)].start # lines[Len(lines)].end

\* C2: after a secondary action has picked an endpoint within threshold, the
\* next primary click outside update mode (pointer-down, pointer-up, click)
\* moves that endpoint to the snapped click location and clears selectedPoint,
\* and does not start a new line.
C2_PickThenClickRelocates ==
    [][(PrimaryClick /\ ~isUpdateMode /\ picked # null) =>
        /\ selectedPoint' = null
        /\ currentPoint' = currentPoint
        /\ \E i \in 1..Len(lines') :
              /\ lines'[i].id = picked.lineId
              /\ lines'[i][picked.pointKey] = snappedAt(pointer)]_vars

\* C3: in the state right after any pointer-up, no line of the store has a
\* computed length of zero.
C3_NoZeroLengthAfterPointerUp ==
    [][PointerUp => \A i \in 1..Len(lines') : lengthOf(lines'[i]) # 0]_vars

\* A pointer-up has just pruned the store and left a line in it.
C3_PrunedOnPointerUp ==
    /\ lastEvent = "mouseup.pruned"
    /\ Len(lines) >= 1

\* The pointer-up that ends an endpoint drag in update mode which has brought
\* the dragged endpoint onto the other endpoint of its line.
releasesCollapsedLine ==
    /\ isUpdateMode
    /\ "endpoint" \in sessionDid
    /\ collapsedBy(lines, selectedPoint) # {}
    /\ PointerUp

\* C4 as stated: on that pointer-up the collapsed line leaves the store and
\* all other lines are still present (ids pairwise distinct before it).
C4_CollapsedLineRemovedOthersKept ==
    [][(/\ releasesCollapsedLine
        /\ \A i, j \in 1..Len(lines) : i # j => lines[i].id # lines[j].id) =>
        /\ \A k \in 1..Len(lines') : lines'[k].id # selectedPoint.lineId
        /\ \A j \in 1..Len(lines) :
              lines[j].id # selectedPoint.lineId =>
                  \E k \in 1..Len(lines') : lines'[k] = lines[j]]_vars

\* C4, amended: on that pointer-up the collapsed line leaves the store, and
\* the store keeps, unchanged and in order, exactly the lines whose computed
\* length is not zero.
C4_CollapsedLineRemovedNonZeroKept ==
    [][releasesCollapsedLine =>
        /\ \A i \in collapsedBy(lines, selectedPoint) :
              \A k \in 1..Len(lines') : lines'[k] # lines[i]
        /\ lines' = SelectSeq(lines, LAMBDA line : lengthOf(line) # 0)]_vars

\* An endpoint drag has collapsed its line, the release has removed it, and
\* another line is still in the store.
C4_CollapsedLinePruned ==
    /\ "pruned" \in sessionDid
    /\ due # "none"
    /\ Len(lines) >= 1

\* C5: in every reachable state the ids of the lines in the store are
\* pairwise distinct.
C5_IdsPairwiseDistinct ==
    \A i, j \in 1..Len(lines) : i # j => lines[i].id # lines[j].id

\* C6: between one pointer-down and the following pointer-up, the
\* pointer-moves never both rewrite a single endpoint and translate a whole line.
C6_EndpointDragExcludesLineDrag ==
    ~({"endpoint", "line"} \subseteq sessionDid)

\* C7: a pointer-down in update mode within threshold of a line endpoint
\* selects the first such endpoint in store order (start before end), sets
\* isDragging, records the drag anchor, and leaves selectedLine as it was.
C7_PointerDownPicksFirstEndpoint ==
    [][\A button \in Buttons :
        (/\ isUpdateMode
         /\ PointerDown(button)
         /\ endpointsNear(canvasPointOf(pointer)) # {}) =>
            /\ \E h \in endpointsNear(canvasPointOf(pointer)) :
                  /\ firstInStoreOrder(h, endpointsNear(canvasPointOf(pointer)))
                  /\ selectedPoint' = [lineId |-> lines[h[1]].id, pointKey |-> h[2]]
            /\ isDragging'
            /\ dragStart' = canvasPointOf(pointer)
            /\ selectedLine' = selectedLine
            /\ lines' = lines]_vars

\* A pointer-down in update mode has just picked the start of the first line
\* while an endpoint of the second line was within threshold too.
C7_FirstOfTwoPicked ==
    /\ lastEvent = "mousedown.endpoint"
    /\ Len(lines) = 2
    /\ \E key \in {"start", "end"} : <<2, key>> \in endpointsNear(canvasPointOf(pointer))
    /\ <<1, "start">> \in endpointsNear(canvasPointOf(pointer))
    /\ lines[1].id # lines[2].id
    /\ selectedPoint = [lineId |-> lines[1].id, pointKey |-> "start"]
    /\ isDragging
    /\ dragStart = canvasPointOf(pointer)

\* C8: releasing Control exits update mode if no line is selected, and leaves
\* update mode engaged and selectedLine unchanged if a line is selected; either
\* way selectedPoint is cleared and the store is unchanged.
C8_ControlRelease ==
    [][KeyUp =>
        /\ IF selectedLine = 0
           THEN ~isUpdateMode'
           ELSE isUpdateMode' /\ selectedLine' = selectedLine
        /\ selectedPoint' = null
        /\ lines' = lines]_vars

\* Control has just been released with a line selected, and update mode is
\* still engaged.
C8_ReleasedWithLineSelected ==
    /\ lastEvent = "keyup.kept"
    /\ ~ctrlHeld
    /\ isUpdateMode
    /\ selectedLine # 0
    /\ selectedPoint = null

\* C9: in every reachable state in which update mode is engaged, either the
\* Control key is held or a line is selected.
C9_UpdateModeNeedsModifierOrSelection ==
    isUpdateMode => (ctrlHeld \/ selectedLine # 0)

\* C10: while update mode is engaged and a line is selected, the Delete key
\* removes exactly the line at index selectedLine, keeps every other line
\* unchanged and in order, and clears selectedLine; in every other state it
\* leaves the store and the selection unchanged.
C10_DeleteKey ==
    [][KeyDown("Delete") =>
        IF isUpdateMode /\ selectedLine # 0
        THEN /\ lines' = without(lines, selectedLine)
             /\ selectedLine' = 0
        ELSE /\ lines' = lines
             /\ selectedLine' = selectedLine]_vars

\* Delete has just removed the selected line and another line is left.
C10_LineDeleted ==
    /\ lastEvent = "keydown.Delete.line"
    /\ Len(lines) = 1
    /\ selectedLine = 0
    /\ isUpdateMode

\* C11: the Escape key, pressed in any state, leaves currentPoint, hoverPoint,
\* snapPoint, selectedPoint and selectedLine none, isDragging false and
\* dragStart none, update mode off, and the store unchanged.
C11_EscapeClearsEverything ==
    [][KeyDown("Escape") =>
        /\ currentPoint' = null
        /\ hoverPoint' = null
        /\ snapPoint' = null
        /\ selectedPoint' = null
        /\ selectedLine' = 0
        /\ ~isDragging'
        /\ dragStart' = null
        /\ ~isUpdateMode'
        /\ lines' = lines]_vars

\* Squared distance, as a fraction, from the pointer to line i of the store.
pointerToLine(i) ==
    distanceToLineSegmentSq(canvasPointOf(pointer), lines[i].start, lines[i].end)

\* Line i of the store is strictly nearer to the pointer than line j.
nearerThan(i, j) ==
    FracLess(pointerToLine(i)[1], pointerToLine(i)[2],
             pointerToLine(j)[1], pointerToLine(j)[2])

\* Lines i and j of the store are equally near to the pointer.
asNearAs(i, j) ==
    FracEq(pointerToLine(i)[1], pointerToLine(i)[2],
           pointerToLine(j)[1], pointerToLine(j)[2])

\* Indices of the lines strictly within threshold of the pointer.
linesWithinThreshold ==
    {i \in 1..Len(lines) :
        FracLess(pointerToLine(i)[1], pointerToLine(i)[2], THRESHOLD * THRESHOLD, 1)}

\* C12: the line findLineAtPoint returns is at the smallest point-to-segment
\* distance among all lines of the store and, among the lines equally close,
\* has the shortest length, whatever the order of the store; it returns a
\* line whenever some line is strictly within threshold.
C12_ClosestThenShortest ==
    answer.fn = "findLineAtPoint" =>
        /\ linesWithinThreshold # {} => answer.index # 0
        /\ answer.index # 0 =>
              \A j \in 1..Len(lines) :
                  /\ ~nearerThan(j, answer.index)
                  /\ asNearAs(j, answer.index) =>
                        distanceSq(lines[answer.index].start, lines[answer.index].end)
                            <= distanceSq(lines[j].start, lines[j].end)

\* The 120-unit line is stored before the 40-unit line, both are at distance
\* 3 from the pointer, and the 40-unit line has been returned.
C12_ShorterOfTieReturned ==
    /\ answer.fn = "findLineAtPoint"
    /\ pointer = [x |-> 20, y |-> 3]
    /\ Len(lines) = 2
    /\ lines[1].end = [x |-> 120, y |-> 0]
    /\ lines[2].end = [x |-> 40, y |-> 0]
    /\ asNearAs(1, 2)
    /\ answer.index = 2

\* C13: findLineAtPoint returns a line only if its point-to-segment distance
\* is strictly less than the threshold, and returns none exactly when no
\* line of the store is strictly within the threshold.
C13_StrictlyWithinThreshold ==
    answer.fn = "findLineAtPoint" =>
        /\ answer.index # 0 => answer.index \in linesWithinThreshold
        /\ answer.index = 0 <=> linesWithinThreshold = {}

\* C14: findNearbyPoint returns the first endpoint within threshold in store
\* order (start before end), else the pending start point if that is within
\* threshold, else none.
C14_FirstEndpointThenPending ==
    answer.fn = "findNearbyPoint" =>
        LET p == canvasPointOf(pointer)
        IN  IF endpointsNear(p) # {}
            THEN \E h \in endpointsNear(p) :
                    /\ firstInStoreOrder(h, endpointsNear(p))
                    /\ answer.point = lines[h[1]][h[2]]
            ELSE IF currentPoint # null /\ distanceSq(currentPoint, p) < THRESHOLD * THRESHOLD
            THEN answer.point = currentPoint
            ELSE answer.point = null

\* The start of the first line has been returned while an endpoint of the
\* second line is strictly nearer to the pointer.
C14_FirstNotNearest ==
    /\ answer.fn = "findNearbyPoint"
    /\ Len(lines) = 2
    /\ answer.point = lines[1].start
    /\ distanceSq(lines[2].start, canvasPointOf(pointer))
           < distanceSq(lines[1].start, canvasPointOf(pointer))

\* The text does not parse, or parses to something other than an array of
\* line records.
malformed(text) ==
    LET parsed == JSONparse(text)
    IN  \/ ~parsed.ok
        \/ parsed.kind # "array"
        \/ \E i \in 1..Len(parsed.value) :
              ~({"id", "start", "end"} \subseteq DOMAIN parsed.value[i])

\* C15: an import of malformed text leaves the store as it was and raises no
\* uncaught error.
C15_MalformedImportFailsClosed ==
    [][\A text \in ImportTexts :
          readerOnload(text) /\ malformed(text) =>
              /\ lines' = lines
              /\ uncaughtError' = uncaughtError
              /\ mounted']_vars

\* C16: importing the text an export produced makes the store equal to the
\* store that was exported: same lines, order, ids and points.
C16_ExportImportRoundTrip ==
    [][\A text \in {download.text} :
          download.present /\ readerOnload(text) => lines' = exportedLines]_vars

\* The export of the line with a four-digit id and a negative coordinate has
\* just been imported and the store is the exported one.
C16_ExportedStoreImported ==
    /\ lastEvent = "import.exported"
    /\ mounted
    /\ Len(lines) = 1
    /\ lines[1].id = 1234
    /\ lines[1].start.x < 0
    /\ lines = exportedLines

\* C17: at startup an item that is absent, does not parse or is no array is
\* ignored, the store starts empty and nothing fails; an item that is an
\* array becomes the store.
C17_StartupLoad ==
    [][Mount =>
          LET parsed == JSONparse(storage.text)
          IN  /\ IF storage.present /\ parsed.ok /\ parsed.kind = "array"
                 THEN lines' = parsed.value
                 ELSE lines' = << >> /\ mounted' /\ ~uncaughtError'
              /\ \A L \in PersistFiles :
                    storage.text = JSONstringify(L) => lines' = L /\ mounted'
              /\ storage.text \in {<< >>, <<"[">>, <<"{", "}">>} => lines' = << >>]_vars

\* The application has started on an item that does not parse.
C17_StartedOnUnparseableItem ==
    /\ lastEvent = "mount"
    /\ storage = [present |-> TRUE, text |-> <<"[">>]
    /\ lines = << >>
    /\ mounted
    /\ ~uncaughtError

\* C18: at most one save timer is pending; every change of the store leaves
\* exactly the timer set for the new store, at the start of its delay; a
\* write that fires stores the serialisation of the current store.
C18_CancelAndReplace ==
    /\ [](Cardinality(timers) <= 1)
    /\ [][lines' # lines /\ mounted' =>
             timers' = {[lines |-> lines', elapsed |-> 0, latest |-> TRUE]}]_vars
    /\ [][TimerFires => storage'.text = JSONstringify(lines)]_vars

\* A timer part-way through its delay was cleared by a later change, and the
\* write that has now fired stored the store of that later change.
C18_LaterChangeWritten ==
    /\ lastEvent = "write"
    /\ "cancelled" \in sessionDid
    /\ mounted
    /\ Len(lines) = 2
    /\ storage.text = JSONstringify(lines)

\* A step in which setLines is called.
setLinesCalled ==
    \/ Mount /\ loadEffect(storage).setsLines
    \/ \E text \in ImportTexts \cup {download.text} :
          readerOnload(text) /\ JSONparse(text).ok
    \/ ClearSaved(TRUE)

\* C19: a write happens only when the whole delay has passed since the last
\* change; and unless changes keep coming, or the application never starts
\* or goes down, the stored item eventually is, and stays, the serialisation
\* of the store.
C19_QuiescenceWrites ==
    /\ [][TimerFires => \A t \in timers : t.latest => t.elapsed = DelayTicks]_vars
    /\ \/ []<><<setLinesCalled>>_vars
       \/ [](~started)
       \/ <>(~mounted)
       \/ <>[](mounted /\ storage.present /\ storage.text = JSONstringify(lines))

\* The delay has passed after an import and the write has stored the store.
C19_WrittenAfterQuiescence ==
    /\ lastEvent = "write"
    /\ mounted
    /\ timers = {}
    /\ lines # << >>
    /\ storage.text = JSONstringify(lines)

\* C20: in every reachable state the zoom factor lies between MIN_ZOOM (0.1)
\* and MAX_ZOOM (5.0), whatever wheel events and zoom resets have happened.
C20_ZoomWithinLimits == MIN_ZOOM <= zoom /\ zoom <= MAX_ZOOM

\* The zoom has been wheeled down to the lower limit with the pointer away
\* from the origin, so that the offset has moved too.
C20_ZoomAtLowerLimit ==
    /\ zoom = MIN_ZOOM
    /\ pointer = [x |-> 10, y |-> 4]
    /\ offset.x # <<0, 1>>

\* (cursor - o) / z, the world coordinate under the cursor, is the same for
\* the offset coordinate o at zoom z and the offset coordinate p at zoom w.
sameWorldCoord(cursor, o, z, p, w) ==
    (cursor * o[2] - o[1]) * (w * p[2]) = (cursor * p[2] - p[1]) * (z * o[2])

\* C21: a wheel step leaves (cursor - offset) / zoom at the cursor position
\* as it was, on both axes; from zoom 1 and offset 0 at cursor 300 the step to
\* zoom 1.1 gives the offset -30.
C21_WheelKeepsWorldPoint ==
    /\ [](zoom = 10 => offsetAfter(300, <<0, 1>>, 11) = <<-30, 1>>)
    /\ [][\A deltaY \in WheelDeltas :
             WheelScrolled(deltaY) =>
                 /\ sameWorldCoord(pointer.x, offset.x, zoom, offset'.x, zoom')
                 /\ sameWorldCoord(pointer.y, offset.y, zoom, offset'.y, zoom')]_vars

\* One wheel step up at pixel (10,4) from the initial view has moved the offset.
C21_ZoomedAtPixel ==
    /\ zoom = 11
    /\ pointer = [x |-> 10, y |-> 4]
    /\ offset = [x |-> <<-1, 1>>, y |-> <<-2, 5>>]

\* A pointer-move that handleMouseMove treats as a step of a whole-line drag.
wholeLineDragStep ==
    /\ isUpdateMode /\ isDragging /\ dragStart # null
    /\ selectedPoint = null
    /\ selectedLine \in 1..Len(lines)
    /\ \E point \in Pixels : PointerMove(point)

\* A pointer-move that handleMouseMove treats as a step of an endpoint drag.
endpointDragStep ==
    /\ isUpdateMode /\ isDragging /\ dragStart # null
    /\ selectedPoint # null
    /\ \E point \in Pixels : PointerMove(point)

activeGridSize == IF useFineGrid THEN FINE_GRID_SIZE ELSE GRID_SIZE

onActiveGrid(p) == p.x % activeGridSize = 0 /\ p.y % activeGridSize = 0

\* C22: after a step of a whole-line drag both endpoints of the moved line
\* have coordinates that are multiples of the active grid size.
C22_MovedLineOnGrid ==
    [][wholeLineDragStep =>
          /\ onActiveGrid(lines'[selectedLine].start)
          /\ onActiveGrid(lines'[selectedLine].end)]_vars

\* With the fine grid on, the line from (0,6) to (24,6) has been moved by a
\* drag step and lies at (0,0)-(20,0).
C22_OffGridLineMoved ==
    /\ lastEvent = "mousemove.line"
    /\ useFineGrid
    /\ selectedLine = 1
    /\ lines[1] = [id |-> 1, start |-> [x |-> 0, y |-> 0], end |-> [x |-> 20, y |-> 0]]

\* A pointer-down in update mode away from every endpoint.
pointerDownOffEndpoints ==
    /\ isUpdateMode
    /\ pointer # null
    /\ endpointsNear(canvasPointOf(pointer)) = {}
    /\ \E button \in Buttons : PointerDown(button)

C27_EndpointDragOneLine ==
    [][endpointDragStep =>
          \E i \in 1..Len(lines) :
              /\ lines[i].id = selectedPoint.lineId
              /\ lines' = [lines EXCEPT ![i] =
                              IF selectedPoint.pointKey = "start"
                              THEN [lines[i] EXCEPT !.start = snapPoint']
                              ELSE [lines[i] EXCEPT !.end = snapPoint']]]_vars

\* C28: a pointer-down in update mode that is near no endpoint and on no line
\* leaves selectedLine and selectedPoint none and isDragging false.
C28_PointerDownOnNothingClears ==
    [][pointerDownOffEndpoints /\ findLineAtPoint(canvasPointOf(pointer), lines) = 0 =>
          /\ selectedLine' = 0
          /\ selectedPoint' = null
          /\ ~isDragging']_vars

\* C29: a pointer-up leaves selectedPoint none, isDragging false and dragStart
\* none; the store keeps exactly its lines of non-zero length, in order; and
\* selectedLine becomes none if a line was removed and is kept otherwise.
C29_PointerUp ==
    [][PointerUp =>
          /\ selectedPoint' = null
          /\ ~isDragging'
          /\ dragStart' = null
          /\ lines' = SelectSeq(lines, LAMBDA line : lengthOf(line) # 0)
          /\ selectedLine' = IF \E i \in 1..Len(lines) : lengthOf(lines[i]) = 0
                             THEN 0
                             ELSE selectedLine]_vars

\* A release has kept the line selection: nothing was removed.
C29_ReleasedWithSelectionKept ==
    /\ lastEvent = "mouseup"
    /\ selectedLine # 0
    /\ selectedPoint = null
    /\ ~isDragging
    /\ dragStart = null

\* An empty text, a text that is no number, zero, and a negative number.
InvalidLengthTexts == { << >>, <<"a">>, <<"0">>, <<"-", "5">> }

\* C23: an invalid length typed for the selected line leaves the store and
\* the selection as they were and raises no error.
C23_InvalidLengthIgnored ==
    [][\A text \in InvalidLengthTexts :
          LengthTyped(text) =>
              /\ lines' = lines
              /\ selectedLine' = selectedLine
              /\ selectedPoint' = selectedPoint
              /\ mounted']_vars

\* A text has been typed for a selected line and was ignored.
C23_TypedAndIgnored ==
    /\ lastEvent = "length.ignored"
    /\ selectedLine \in 1..Len(lines)
    /\ mounted

\* The view and store the worked example starts from, with the given pending
\* point and the pointer at the given pixel when the click arrives.
scenarioClick(pending, pixel) ==
    /\ PrimaryClick
    /\ zoom = 10 /\ offset = [x |-> <<0, 1>>, y |-> <<0, 1>>]
    /\ ~useFineGrid /\ ~isUpdateMode
    /\ lines = << >>
    /\ selectedPoint = null
    /\ currentPoint = pending
    /\ pointer = pixel

\* C24: from the empty store in draw mode, coarse grid, zoom 1 and offset
\* (0,0), a click at (100,100) starts a line there and a following click at
\* (205,100) leaves exactly one line (100,100)-(200,100), 50 mm long.
C24_TwoClicksDrawOneLine ==
    /\ [][scenarioClick(null, [x |-> 100, y |-> 100]) =>
             /\ lines' = << >>
             /\ currentPoint' = [x |-> 100, y |-> 100]]_vars
    /\ [][scenarioClick([x |-> 100, y |-> 100], [x |-> 205, y |-> 100]) =>
             /\ Len(lines') = 1
             /\ lines'[1].start = [x |-> 100, y |-> 100]
             /\ lines'[1].end = [x |-> 200, y |-> 100]
             /\ lengthOf(lines'[1]) = 50]_vars

\* The second click of the example has drawn its line.
C24_LineDrawn ==
    /\ lastEvent = "click.second"
    /\ pointer = [x |-> 205, y |-> 100]
    /\ Len(lines) = 1
    /\ lines[1].start = [x |-> 100, y |-> 100]
    /\ lines[1].end = [x |-> 200, y |-> 100]

\* C25: snapping the point that snapToGrid returned gives that point again,
\* in the current view and grid.
C25_SnapToGridIdempotent ==
    \A point \in Pixels :
        snapToGrid(snapToGrid(point, useFineGrid), useFineGrid)
            = snapToGrid(point, useFineGrid)

\* C30: a primary click in update mode leaves the store and currentPoint as
\* they were; when no line and no endpoint is within threshold of the click it
\* clears selectedLine and selectedPoint, otherwise it changes nothing.
C30_UpdateModeClick ==
    [][(PrimaryClick /\ isUpdateMode) =>
          /\ lines' = lines
          /\ currentPoint' = currentPoint
          /\ IF /\ linesWithinThreshold = {}
                /\ endpointsNear(canvasPointOf(pointer)) = {}
             THEN selectedLine' = 0 /\ selectedPoint' = null
             ELSE appVars' = appVars]_vars

\* C31: a pointer-move outside a drag session of update mode leaves the store,
\* selectedLine and selectedPoint as they were, and changes nothing but the
\* snap and hover points; the store changes on a pointer-move only in update
\* mode with a drag session active.
C31_MoveMutatesOnlyInDrag ==
    [][(pointer' # null /\ PointerMove(pointer')) =>
              /\ (lines' # lines => isUpdateMode /\ isDragging)
              /\ (~(isUpdateMode /\ isDragging) =>
                     /\ lines' = lines
                     /\ selectedLine' = selectedLine
                     /\ selectedPoint' = selectedPoint
                     /\ <<currentPoint, isUpdateMode, isDragging, dragStart,
                          useFineGrid, clock>>' =
                        <<currentPoint, isUpdateMode, isDragging, dragStart,
                          useFineGrid, clock>>)]_vars

\* The pointer has moved in draw mode over a store with a line while a line
\* is being drawn, and only the snap and hover points follow it.
C31_MovedWhileDrawing ==
    /\ lastEvent = "mousemove"
    /\ ~isUpdateMode
    /\ lines # << >>
    /\ currentPoint # null
    /\ hoverPoint = snapPoint
    /\ snapPoint # null

\* The endpoints of the store, and the pending point, within threshold of
\* the canvas point of a pixel.
snapCandidates(pixel) ==
    {lines[h[1]][h[2]] : h \in endpointsNear(canvasPointOf(pixel))}
        \cup (IF /\ currentPoint # null
                 /\ distanceSq(currentPoint, canvasPointOf(pixel)) < THRESHOLD * THRESHOLD
              THEN {currentPoint} ELSE {})

\* g is a multiple of the grid size nearest to the canvas coordinate of the
\* pixel coordinate v under the offset coordinate o.
nearestGridCoord(g, v, o) ==
    LET gridSize == IF useFineGrid THEN FINE_GRID_SIZE ELSE GRID_SIZE
    IN  /\ g % gridSize = 0
        /\ 2 * abs((v * o[2] - o[1]) * 10 - g * zoom * o[2]) <= gridSize * zoom * o[2]

\* s is the snap of the pixel: the endpoint the nearby-endpoint search
\* returns when an endpoint is within threshold, the grid snap otherwise.
isSnapOf(s, pixel) ==
    IF snapCandidates(pixel) # {}
    THEN /\ s \in snapCandidates(pixel)
         /\ s = findNearbyPoint(pixel, lines, currentPoint)
    ELSE /\ nearestGridCoord(s.x, pixel.x, offset.x)
         /\ nearestGridCoord(s.y, pixel.y, offset.y)

\* C32: the point a pointer-move or a drawing click snaps to is the nearby
\* endpoint when one is within threshold and the grid snap otherwise, and
\* after every pointer-move snapPoint is that point.
C32_SnapEndpointElseGrid ==
    /\ [][(pointer' # null /\ PointerMove(pointer')) =>
             /\ snapPoint' # null
             /\ isSnapOf(snapPoint', pointer')]_vars
    /\ [][(PrimaryClick /\ ~isUpdateMode /\ selectedPoint = null) =>
             IF currentPoint = null
             THEN isSnapOf(currentPoint', pointer)
             ELSE /\ Len(lines') = Len(lines) + 1
                  /\ isSnapOf(lines'[Len(lines')].end, pointer)]_vars

\* A line is being drawn and the pointer has moved next to an endpoint off
\* the grid, which the snap point takes in place of the grid point (20,0).
C32_SnappedToEndpointOffGrid ==
    /\ lastEvent = "mousemove"
    /\ ~isUpdateMode
    /\ currentPoint = [x |-> 0, y |-> 0]
    /\ pointer = [x |-> 10, y |-> 4]
    /\ snapPoint = [x |-> 14, y |-> 4]
    /\ hoverPoint = snapPoint

\* Texts of positive numbers.
ValidLengthTexts == { <<"5">>, <<"1", "5">> }

\* q lies on the ray from a through b (a # b).
onRay(a, b, q) ==
    /\ (b.x - a.x) * (q.y - a.y) = (b.y - a.y) * (q.x - a.x)
    /\ (b.x - a.x) * (q.x - a.x) + (b.y - a.y) * (q.y - a.y) >= 0

\* C33: a positive length typed for the selected line changes nothing in the
\* store but that line's end, which stays on the ray from its start through
\* its previous end; the line keeps its start, id and index.
C33_LengthMovesEndAlongRay ==
    [][\A text \in ValidLengthTexts :
          (LengthTyped(text) /\ lines[selectedLine].start # lines[selectedLine].end) =>
              /\ Len(lines') = Len(lines)
              /\ selectedLine' = selectedLine
              /\ \A i \in 1..Len(lines) : i # selectedLine => lines'[i] = lines[i]
              /\ lines'[selectedLine].id = lines[selectedLine].id
              /\ lines'[selectedLine].start = lines[selectedLine].start
              /\ onRay(lines[selectedLine].start, lines[selectedLine].end,
                       lines'[selectedLine].end)]_vars

\* The length 5 mm was typed for the first line, which pointed left from
\* (20,0) to (0,0) and now ends at (10,0); the second line is as it was.
C33_LengthSetLeftwards ==
    /\ lastEvent = "length.set"
    /\ selectedLine = 1
    /\ Len(lines) = 2
    /\ lines[1] = [id |-> 1, start |-> [x |-> 20, y |-> 0], end |-> [x |-> 10, y |-> 0]]
    /\ lines[2] = [id |-> 2, start |-> [x |-> 20, y |-> 0], end |-> [x |-> 40, y |-> 0]]

\* C34: after a confirmed clear the store is empty and currentPoint,
\* hoverPoint, snapPoint, selectedPoint and selectedLine are none; a declined
\* clear changes nothing.
C34_ClearResets ==
    /\ [][ClearClicked(TRUE) =>
             /\ lines' = << >>
             /\ currentPoint' = null
             /\ hoverPoint' = null
             /\ snapPoint' = null
             /\ selectedPoint' = null
             /\ selectedLine' = 0]_vars
    /\ [][ClearClicked(FALSE) => appVars' = appVars]_vars

\* A store with lines was cleared while update mode was engaged.
C34_ClearedInUpdateMode ==
    /\ lastEvent = "clear.emptied"
    /\ isUpdateMode
    /\ lines = << >>
    /\ selectedLine = 0
    /\ snapPoint = null

\* C35: selectedLine is none or an index of the store, in every state.
C35_SelectedLineInStore == selectedLine \in 0..Len(lines)

\* C36: a line is selected only while update mode is engaged: a line becomes
\* selected only by a pointer-down in update mode, and a step that turns
\* update mode off leaves no line selected.
C36_SelectionOnlyInUpdateMode ==
    /\ [](selectedLine # 0 => isUpdateMode)
    /\ [][(selectedLine' # 0 /\ selectedLine' # selectedLine) =>
             (isUpdateMode /\ \E button \in Buttons : PointerDown(button))]_vars
    /\ [][(isUpdateMode /\ ~isUpdateMode') => selectedLine' = 0]_vars

\* Control was released while a line was selected, and update mode stayed.
C36_ReleasedWithLineSelected ==
    /\ lastEvent = "keyup.kept"
    /\ ~ctrlHeld
    /\ selectedLine \in 1..Len(lines)
    /\ isUpdateMode

\* The sequence s is t with some of its members left out.
isSubsequence(s, t) ==
    \E f \in [1..Len(s) -> 1..Len(t)] :
        /\ \A i \in 1..Len(s) : s[i] = t[f[i]]
        /\ \A i, j \in 1..Len(s) : i < j => f[i] < f[j]

\* C37: a step of the canvas, the keys or the length field keeps the lines
\* that remain in the store in their order: an edit keeps every line at its
\* index, a removal leaves the other lines as they were and in order, and a
\* new line is added at the end.
C37_OrderPreserved ==
    [][lastEvent' \notin {"load", "clear", "clear.emptied"} =>
          /\ Len(lines') <= Len(lines) + 1
          /\ Len(lines') = Len(lines) =>
                 \A i \in 1..Len(lines) : lines'[i].id = lines[i].id
          /\ Len(lines') = Len(lines) + 1 =>
                 \A i \in 1..Len(lines) : lines'[i] = lines[i]
          /\ Len(lines') < Len(lines) => isSubsequence(lines', lines)]_vars

\* Two lines were drawn and the first one deleted: the second is the store.
C37_FirstOfTwoDeleted ==
    /\ lastEvent = "keydown.Delete.line"
    /\ Len(lines) = 1
    /\ lines[1].id = 2

onCoarseGrid(p) == p.x % GRID_SIZE = 0 /\ p.y % GRID_SIZE = 0

C39_StartupKeepsSavedLines ==
    /\ [][(Mount /\ loadEffect(storage).setsLines) =>
             \A t \in timers' : t.lines = loadEffect(storage).value]_vars
    /\ [][TimerFires => storage' = [present |-> TRUE, text |-> JSONstringify(lines)]]_vars

\* The application has started on a saved array of lines, and the one
\* pending write is the write of the loaded store.
C39_StartedOnSavedLines ==
    /\ lastEvent = "mount"
    /\ mounted
    /\ lines # << >>
    /\ storage.present
    /\ timers = {[lines |-> lines, elapsed |-> 0, latest |-> TRUE]}

====
